---- MODULE Spec2Model ----
(***************************************************************************)
(* DHT11 platform-device character driver (dht11_driver.c).                *)
(*                                                                         *)
(* The model holds the six module-scope handles of the driver, the kernel  *)
(* objects those handles name (reserved regions, virtual mappings, device  *)
(* numbers, registered character devices, the device class, device nodes), *)
(* the driver core that calls dht11_probe / dht11_remove, and user         *)
(* processes that open, read and close the device node.  Every kernel call *)
(* of probe, remove and read is one step, so that readers interleave with  *)
(* attach, rollback and detach.                                            *)
(***************************************************************************)
EXTENDS Integers, Sequences, FiniteSets

(* ---------------------------- bounds ----------------------------------- *)
NumReaders == 2
MaxCount == 5

Readers == 1..NumReaders
Counts == 0..MaxCount

(* --------------------- program and kernel constants --------------------- *)
ENODEV == 19
ENXIO == 6
ENOMEM == 12
EACCES == 13
SizeofU32 == 4

NULL == 0

\* Platform devices of the device tree.  The driver keeps one set of
\* module-scope handles, so the driver core binds one instance.
Devices == {1}

\* Every platform device whose compatible string matches dht11_of_match: the
\* driver core calls dht11_probe for each of them, on the same module-scope
\* handles.
AllDevices == {1, 2}

\* Memory resource of platform device d as the device tree gives it.
ResStart(d) == 16 * d
ResEnd(d) == ResStart(d) + SizeofU32 - 1

\* Values the 32-bit hardware register takes.
RegValues == {0, 16909060}

\* Dynamic majors alloc_chrdev_region hands out (highest free first).
Majors == {254, 253}

VARIABLES
    \* module-scope handles, lines 34-39
    res, remap_size, base_addr, dev, c_dev, cl,
    \* kernel objects
    regions, mappings, chrdevs, cdevMap, classExists, nodes,
    \* device tree and hardware
    dtMem, hw,
    \* driver core: the probe/remove call in progress
    pc, cur, ret, rv, bound,
    \* history of the call in progress
    failed, acqLog, relLog, heldPre,
    \* user processes
    rpc, rcount, rdata, rbuf, rret, rtrace

drvVars == <<res, remap_size, base_addr, dev, c_dev, cl>>
kernVars == <<regions, mappings, chrdevs, cdevMap, classExists, nodes>>
envVars == <<dtMem, hw>>
coreVars == <<pc, cur, ret, rv, bound>>
histVars == <<failed, acqLog, relLog, heldPre>>
readVars == <<rpc, rcount, rdata, rbuf, rret, rtrace>>
vars == <<drvVars, kernVars, envVars, coreVars, histVars, readVars>>

(* ------------------------------ helpers --------------------------------- *)
\* The kernel objects currently held, as <<kind, identity>> pairs.
Held ==
    {<<"region", g>> : g \in regions}
    \cup {<<"mapping", m>> : m \in mappings}
    \cup {<<"devnum", n>> : n \in chrdevs}
    \cup {<<"cdev", n>> : n \in cdevMap}
    \cup (IF classExists THEN {<<"class", 0>>} ELSE {})
    \cup {<<"node", n>> : n \in nodes}

Max(S) == CHOOSE x \in S : \A y \in S : y <= x

\* cl points to a live class object (not NULL, not an ERR_PTR, not destroyed).
ClassPtrLive == cl = "CLS" /\ classExists

Acquired(name) == acqLog' = Append(acqLog, name)
Released(name, wasHeld) == relLog' = Append(relLog, [op |-> name, ok |-> wasHeld])

ReaderIdle ==
    /\ rpc = [r \in Readers |-> "closed"]
    /\ rcount = [r \in Readers |-> 0]
    /\ rdata = [r \in Readers |-> 0]
    /\ rbuf = [r \in Readers |-> <<>>]
    /\ rret = [r \in Readers |-> 0]
    /\ rtrace = [r \in Readers |-> <<>>]

Init ==
    /\ res = NULL /\ remap_size = 0 /\ base_addr = NULL /\ dev = 0
    /\ c_dev = [ops |-> FALSE, dev |-> 0]
    /\ cl = "NULL"
    /\ regions = {} /\ mappings = {} /\ chrdevs = {} /\ cdevMap = {}
    /\ classExists = FALSE /\ nodes = {}
    /\ dtMem \in [Devices -> BOOLEAN]
    /\ hw \in [Devices -> RegValues]
    /\ pc = "idle" /\ cur = NULL /\ ret = 0 /\ rv = 0
    /\ bound = [d \in Devices |-> FALSE]
    /\ failed = "none" /\ acqLog = <<>> /\ relLog = <<>> /\ heldPre = {}
    /\ ReaderIdle

(* ------------------------- attach: dht11_probe -------------------------- *)
\* The driver core calls probe for an unbound device; `int ret = 0` (line 96).
ProbeStart(d) ==
    /\ pc = "idle" /\ ~bound[d]
    /\ pc' = "platform_get_resource" /\ cur' = d /\ ret' = 0
    /\ failed' = "none" /\ acqLog' = <<>> /\ relLog' = <<>> /\ heldPre' = Held
    /\ UNCHANGED <<rv, bound, drvVars, kernVars, envVars, readVars>>

\* Variant of lines 100-104: the result of the lookup is not tested.
PlatformGetResource_NoCheck ==
    /\ pc = "platform_get_resource"
    /\ res' = IF dtMem[cur] THEN cur ELSE NULL
    /\ pc' = "request_mem_region"
    /\ UNCHANGED <<remap_size, base_addr, dev, c_dev, cl, kernVars, envVars,
                   cur, ret, rv, bound, histVars, readVars>>

\* lines 100-104
PlatformGetResource ==
    /\ pc = "platform_get_resource"
    /\ IF dtMem[cur]
         THEN /\ res' = cur
              /\ pc' = "request_mem_region"
              /\ UNCHANGED <<rv, failed>>
         ELSE /\ res' = NULL
              /\ rv' = -ENODEV
              /\ failed' = "platform_get_resource"
              /\ pc' = "probe_return"
    /\ UNCHANGED <<remap_size, base_addr, dev, c_dev, cl, kernVars, envVars,
                   cur, ret, bound, acqLog, relLog, heldPre, readVars>>

\* lines 107-111: the reservation fails when the range overlaps a reserved
\* one, and may fail for a range another driver holds.
RequestMemRegion ==
    /\ pc = "request_mem_region"
    /\ remap_size' = ResEnd(res) - ResStart(res) + 1
    /\ \E ok \in BOOLEAN :
         /\ ok => \A g \in regions : g[1] # ResStart(res)
         /\ IF ok
              THEN /\ regions' = regions \cup {<<ResStart(res), remap_size'>>}
                   /\ Acquired("region")
                   /\ pc' = "ioremap"
                   /\ UNCHANGED <<rv, failed>>
              ELSE /\ rv' = -ENXIO
                   /\ failed' = "request_mem_region"
                   /\ pc' = "probe_return"
                   /\ UNCHANGED <<regions, acqLog>>
    /\ UNCHANGED <<res, base_addr, dev, c_dev, cl, mappings, chrdevs, cdevMap,
                   classExists, nodes, envVars, cur, ret, bound, relLog,
                   heldPre, readVars>>

\* Variant of lines 114-119: a failed ioremap does not leave the function.
Ioremap_NoGoto ==
    /\ pc = "ioremap"
    /\ \E ok \in BOOLEAN :
         IF ok
           THEN /\ base_addr' = ResStart(res)
                /\ mappings' = mappings \cup {ResStart(res)}
                /\ Acquired("mapping")
                /\ UNCHANGED <<ret, failed>>
           ELSE /\ base_addr' = NULL
                /\ ret' = -ENOMEM
                /\ failed' = "ioremap"
                /\ UNCHANGED <<mappings, acqLog>>
    /\ pc' = "alloc_chrdev_region"
    /\ UNCHANGED <<res, remap_size, dev, c_dev, cl, regions, chrdevs, cdevMap,
                   classExists, nodes, envVars, cur, rv, bound, relLog,
                   heldPre, readVars>>

\* lines 114-119: the virtual address of a mapping is named by the physical
\* start it maps.
Ioremap ==
    /\ pc = "ioremap"
    /\ \E ok \in BOOLEAN :
         IF ok
           THEN /\ base_addr' = ResStart(res)
                /\ mappings' = mappings \cup {ResStart(res)}
                /\ Acquired("mapping")
                /\ pc' = "alloc_chrdev_region"
                /\ UNCHANGED <<ret, failed>>
           ELSE /\ base_addr' = NULL
                /\ ret' = -ENOMEM
                /\ failed' = "ioremap"
                /\ pc' = "err_release_region"
                /\ UNCHANGED <<mappings, acqLog>>
    /\ UNCHANGED <<res, remap_size, dev, c_dev, cl, regions, chrdevs, cdevMap,
                   classExists, nodes, envVars, cur, rv, bound, relLog,
                   heldPre, readVars>>

\* lines 121-125: ret takes the call's result, 0 or a negative errno.
AllocChrdevRegion ==
    /\ pc = "alloc_chrdev_region"
    /\ \E r \in {0, -ENOMEM} :
         /\ r = 0 => Majors \ chrdevs # {}
         /\ ret' = r
         /\ IF r = 0
              THEN /\ dev' = Max(Majors \ chrdevs)
                   /\ chrdevs' = chrdevs \cup {dev'}
                   /\ Acquired("devnum")
                   /\ pc' = "cdev_init"
                   /\ UNCHANGED failed
              ELSE /\ failed' = "alloc_chrdev_region"
                   /\ pc' = "err_unmap"
                   /\ UNCHANGED <<dev, chrdevs, acqLog>>
    /\ UNCHANGED <<res, remap_size, base_addr, c_dev, cl, regions, mappings,
                   cdevMap, classExists, nodes, envVars, cur, rv, bound,
                   relLog, heldPre, readVars>>

\* line 127: binds c_dev to dht11_operations (open, release, read).
CdevInit ==
    /\ pc = "cdev_init"
    /\ c_dev' = [ops |-> TRUE, dev |-> 0]
    /\ pc' = "cdev_add"
    /\ UNCHANGED <<res, remap_size, base_addr, dev, cl, kernVars, envVars,
                   cur, ret, rv, bound, histVars, readVars>>

\* lines 129-133
CdevAdd ==
    /\ pc = "cdev_add"
    /\ \E r \in {0, -ENOMEM} :
         /\ ret' = r
         /\ IF r < 0
              THEN /\ failed' = "cdev_add"
                   /\ pc' = "err_unregister"
                   /\ UNCHANGED <<c_dev, cdevMap, acqLog>>
              ELSE /\ c_dev' = [c_dev EXCEPT !.dev = dev]
                   /\ cdevMap' = cdevMap \cup {dev}
                   /\ Acquired("cdev")
                   /\ pc' = "class_create"
                   /\ UNCHANGED failed
    /\ UNCHANGED <<res, remap_size, base_addr, dev, cl, regions, mappings,
                   chrdevs, classExists, nodes, envVars, cur, rv, bound,
                   relLog, heldPre, readVars>>

\* lines 135-139: on failure cl holds an ERR_PTR and ret is left as it is.
ClassCreate ==
    /\ pc = "class_create"
    /\ \E ok \in BOOLEAN :
         /\ ok => ~classExists
         /\ IF ok
              THEN /\ cl' = "CLS"
                   /\ classExists' = TRUE
                   /\ Acquired("class")
                   /\ pc' = "device_create"
                   /\ UNCHANGED failed
              ELSE /\ cl' = "ERR"
                   /\ failed' = "class_create"
                   /\ pc' = "err_delete_cdev"
                   /\ UNCHANGED <<classExists, acqLog>>
    /\ UNCHANGED <<res, remap_size, base_addr, dev, c_dev, regions, mappings,
                   chrdevs, cdevMap, nodes, envVars, cur, ret, rv, bound,
                   relLog, heldPre, readVars>>

\* lines 141-145: on failure ret is left as it is.
DeviceCreate ==
    /\ pc = "device_create"
    /\ \E ok \in BOOLEAN :
         /\ ok => dev \notin nodes
         /\ IF ok
              THEN /\ nodes' = nodes \cup {dev}
                   /\ Acquired("node")
                   /\ pc' = "probe_success"
                   /\ UNCHANGED failed
              ELSE /\ failed' = "device_create"
                   /\ pc' = "err_class_destroy"
                   /\ UNCHANGED <<nodes, acqLog>>
    /\ UNCHANGED <<drvVars, regions, mappings, chrdevs, cdevMap, classExists,
                   envVars, cur, ret, rv, bound, relLog, heldPre, readVars>>

\* lines 147-151
ProbeSuccess ==
    /\ pc = "probe_success"
    /\ rv' = 0
    /\ pc' = "probe_return"
    /\ UNCHANGED <<drvVars, kernVars, envVars, cur, ret, bound, histVars,
                   readVars>>

(* ----------------------- kernel release calls --------------------------- *)
\* Each call acts on the module-scope handle the driver passes it.  A call on
\* an object that is not held changes nothing and is logged with ok = FALSE;
\* a call that dereferences a class pointer that is an ERR_PTR or names a
\* destroyed class may also fault, which ends the calling thread ("oops").

\* device_destroy(cl, dev)
KDeviceDestroy(next) ==
    \/ /\ ClassPtrLive
       /\ nodes' = nodes \ {dev}
       /\ Released("node", dev \in nodes)
       /\ pc' = next
    \/ /\ ~ClassPtrLive
       /\ UNCHANGED nodes
       /\ Released("node", FALSE)
       /\ pc' = next
    \/ /\ ~ClassPtrLive /\ cl # "NULL"
       /\ UNCHANGED <<nodes, relLog>>
       /\ pc' = "oops"

\* class_destroy(cl): returns at once for NULL and ERR_PTR.
KClassDestroy(next) ==
    \/ /\ ClassPtrLive
       /\ classExists' = FALSE
       /\ Released("class", TRUE)
       /\ pc' = next
    \/ /\ ~ClassPtrLive
       /\ UNCHANGED classExists
       /\ Released("class", FALSE)
       /\ pc' = next
    \/ /\ cl = "CLS" /\ ~classExists
       /\ UNCHANGED <<classExists, relLog>>
       /\ pc' = "oops"

\* cdev_del(&c_dev)
KCdevDel(next) ==
    /\ cdevMap' = cdevMap \ {c_dev.dev}
    /\ Released("cdev", c_dev.dev \in cdevMap)
    /\ pc' = next

\* unregister_chrdev_region(dev, 1)
KUnregisterChrdevRegion(next) ==
    /\ chrdevs' = chrdevs \ {dev}
    /\ Released("devnum", dev \in chrdevs)
    /\ pc' = next

\* iounmap(base_addr)
KIounmap(next) ==
    /\ mappings' = mappings \ {base_addr}
    /\ Released("mapping", base_addr \in mappings)
    /\ pc' = next

\* release_mem_region(res->start, remap_size)
KReleaseMemRegion(next) ==
    IF res = NULL
      THEN /\ pc' = "oops"
           /\ UNCHANGED <<regions, relLog>>
      ELSE /\ regions' = regions \ {<<ResStart(res), remap_size>>}
           /\ Released("region", <<ResStart(res), remap_size>> \in regions)
           /\ pc' = next

(* --------------------- attach: rollback labels -------------------------- *)
\* line 154
ErrClassDestroy ==
    /\ pc = "err_class_destroy"
    /\ KClassDestroy("err_delete_cdev")
    /\ UNCHANGED <<drvVars, regions, mappings, chrdevs, cdevMap, nodes,
                   envVars, cur, ret, rv, bound, failed, acqLog, heldPre,
                   readVars>>

\* Variant of the err_delete_cdev label: the character device is not deleted.
ErrDeleteCdev_Skip ==
    /\ pc = "err_delete_cdev"
    /\ pc' = "err_unregister"
    /\ UNCHANGED <<drvVars, kernVars, envVars, cur, ret, rv, bound, histVars,
                   readVars>>

\* line 156
ErrDeleteCdev ==
    /\ pc = "err_delete_cdev"
    /\ KCdevDel("err_unregister")
    /\ UNCHANGED <<drvVars, regions, mappings, chrdevs, classExists, nodes,
                   envVars, cur, ret, rv, bound, failed, acqLog, heldPre,
                   readVars>>

\* line 158
ErrUnregister ==
    /\ pc = "err_unregister"
    /\ KUnregisterChrdevRegion("err_unmap")
    /\ UNCHANGED <<drvVars, regions, mappings, cdevMap, classExists, nodes,
                   envVars, cur, ret, rv, bound, failed, acqLog, heldPre,
                   readVars>>

\* Variant of the err_unmap label: the mapping is not undone.
ErrUnmap_Skip ==
    /\ pc = "err_unmap"
    /\ pc' = "err_release_region"
    /\ UNCHANGED <<drvVars, kernVars, envVars, cur, ret, rv, bound, histVars,
                   readVars>>

\* line 160
ErrUnmap ==
    /\ pc = "err_unmap"
    /\ KIounmap("err_release_region")
    /\ UNCHANGED <<drvVars, regions, chrdevs, cdevMap, classExists, nodes,
                   envVars, cur, ret, rv, bound, failed, acqLog, heldPre,
                   readVars>>

\* line 162
ErrReleaseRegion ==
    /\ pc = "err_release_region"
    /\ KReleaseMemRegion("probe_fail")
    /\ UNCHANGED <<drvVars, mappings, chrdevs, cdevMap, classExists, nodes,
                   envVars, cur, ret, rv, bound, failed, acqLog, heldPre,
                   readVars>>

\* line 164: return ret
ProbeFail ==
    /\ pc = "probe_fail"
    /\ rv' = ret
    /\ pc' = "probe_return"
    /\ UNCHANGED <<drvVars, kernVars, envVars, cur, ret, bound, histVars,
                   readVars>>

\* The driver core binds the device exactly when probe returned 0.  The
\* call is over: its locals and its history are dropped.
ProbeReturn ==
    /\ pc = "probe_return"
    /\ bound' = [bound EXCEPT ![cur] = (rv = 0)]
    /\ pc' = "idle" /\ cur' = NULL /\ ret' = 0 /\ rv' = 0
    /\ relLog' = <<>> /\ heldPre' = {}
    /\ UNCHANGED <<drvVars, kernVars, envVars, failed, acqLog, readVars>>

(* ------------------------- detach: dht11_remove ------------------------- *)
\* The driver core calls remove only for a bound device.
RemoveStart(d) ==
    /\ pc = "idle" /\ bound[d]
    /\ pc' = "rm_device_destroy" /\ cur' = d
    /\ relLog' = <<>> /\ heldPre' = Held
    /\ UNCHANGED <<drvVars, kernVars, envVars, ret, rv, bound, failed, acqLog,
                   readVars>>

\* line 79
RmDeviceDestroy ==
    /\ pc = "rm_device_destroy"
    /\ KDeviceDestroy("rm_class_destroy")
    /\ UNCHANGED <<drvVars, regions, mappings, chrdevs, cdevMap, classExists,
                   envVars, cur, ret, rv, bound, failed, acqLog, heldPre,
                   readVars>>

\* line 80
RmClassDestroy ==
    /\ pc = "rm_class_destroy"
    /\ KClassDestroy("rm_cdev_del")
    /\ UNCHANGED <<drvVars, regions, mappings, chrdevs, cdevMap, nodes,
                   envVars, cur, ret, rv, bound, failed, acqLog, heldPre,
                   readVars>>

\* Variant of line 81: the device number is given back before the character
\* device is deleted.
RmCdevDel_Swapped ==
    /\ pc = "rm_cdev_del"
    /\ KUnregisterChrdevRegion("rm_unregister_chrdev_region")
    /\ UNCHANGED <<drvVars, regions, mappings, cdevMap, classExists, nodes,
                   envVars, cur, ret, rv, bound, failed, acqLog, heldPre,
                   readVars>>

\* line 81
RmCdevDel ==
    /\ pc = "rm_cdev_del"
    /\ KCdevDel("rm_unregister_chrdev_region")
    /\ UNCHANGED <<drvVars, regions, mappings, chrdevs, classExists, nodes,
                   envVars, cur, ret, rv, bound, failed, acqLog, heldPre,
                   readVars>>

\* line 82
RmUnregisterChrdevRegion ==
    /\ pc = "rm_unregister_chrdev_region"
    /\ KUnregisterChrdevRegion("rm_iounmap")
    /\ UNCHANGED <<drvVars, regions, mappings, cdevMap, classExists, nodes,
                   envVars, cur, ret, rv, bound, failed, acqLog, heldPre,
                   readVars>>

\* Variant of line 83: the mapping is not undone.
RmIounmap_Skip ==
    /\ pc = "rm_iounmap"
    /\ pc' = "rm_release_mem_region"
    /\ UNCHANGED <<drvVars, kernVars, envVars, cur, ret, rv, bound, histVars,
                   readVars>>

\* line 83
RmIounmap ==
    /\ pc = "rm_iounmap"
    /\ KIounmap("rm_release_mem_region")
    /\ UNCHANGED <<drvVars, regions, chrdevs, cdevMap, classExists, nodes,
                   envVars, cur, ret, rv, bound, failed, acqLog, heldPre,
                   readVars>>

\* line 84
RmReleaseMemRegion ==
    /\ pc = "rm_release_mem_region"
    /\ KReleaseMemRegion("rm_return")
    /\ UNCHANGED <<drvVars, mappings, chrdevs, cdevMap, classExists, nodes,
                   envVars, cur, ret, rv, bound, failed, acqLog, heldPre,
                   readVars>>

\* lines 85-87: return 0
RmReturn ==
    /\ pc = "rm_return"
    /\ rv' = 0
    /\ pc' = "remove_return"
    /\ UNCHANGED <<drvVars, kernVars, envVars, cur, ret, bound, histVars,
                   readVars>>

\* The driver core unbinds the device.  The call is over: its history is
\* dropped.
RemoveReturn ==
    /\ pc = "remove_return"
    /\ bound' = [bound EXCEPT ![cur] = FALSE]
    /\ pc' = "idle" /\ cur' = NULL /\ rv' = 0
    /\ failed' = "none" /\ acqLog' = <<>> /\ relLog' = <<>> /\ heldPre' = {}
    /\ UNCHANGED <<drvVars, kernVars, envVars, ret, readVars>>

(* --------------------------- user processes ----------------------------- *)
\* line 44
dht11_open == 0

\* line 50
dht11_close == 0

\* The four bytes of a 32-bit word in host (little-endian) order, as
\* copy_to_user(buf, &data, sizeof(uint32_t)) lays them out.
Bytes(data) == [i \in 1..SizeofU32 |-> (data \div (256 ^ (i - 1))) % 256]

\* Variant of lines 61-65: the number of bytes copied is returned.
ReadResult_Short(notCopied) == SizeofU32 - notCopied

\* Variant of lines 61-65: the result of copy_to_user is not tested.
ReadResult_Unchecked(notCopied) == SizeofU32

\* lines 61-65: copy_to_user returns the number of bytes it could not copy.
ReadResult(notCopied) == IF notCopied # 0 THEN -EACCES ELSE SizeofU32

\* The device whose register a mapping reaches.
DevOf(m) == CHOOSE d \in AllDevices : ResStart(d) = m

\* Each call of dht11_read records the operations it performs, in order.
Did(r, op) == rtrace' = [rtrace EXCEPT ![r] = Append(rtrace[r], op)]

\* A process opens the device node: the node exists and its device number
\* leads to the registered c_dev, whose operations are dht11_operations.
Open(r) ==
    /\ rpc[r] = "closed"
    /\ \E n \in nodes : n \in cdevMap /\ c_dev.ops
    /\ rpc' = [rpc EXCEPT ![r] = "open"]
    /\ rret' = [rret EXCEPT ![r] = dht11_open]
    /\ UNCHANGED <<drvVars, kernVars, envVars, coreVars, histVars, rcount,
                   rdata, rbuf, rtrace>>

\* Variant of line 58: the barrier is left out.
ReadRmb_NoBarrier(r, C) ==
    /\ rpc[r] = "open"
    /\ \E count \in C, pos \in {0, SizeofU32} :
         rcount' = [rcount EXCEPT ![r] = count]
    /\ rpc' = [rpc EXCEPT ![r] = "ioread32"]
    /\ UNCHANGED <<drvVars, kernVars, envVars, coreVars, histVars, rdata, rbuf,
                   rret, rtrace>>

\* read(fd, buf, count) at file position pos enters dht11_read; line 58: rmb().
\* C is the set of counts the callers ask for.
ReadRmb(r, C) ==
    /\ rpc[r] = "open"
    /\ \E count \in C, pos \in {0, SizeofU32} :
         rcount' = [rcount EXCEPT ![r] = count]
    /\ rpc' = [rpc EXCEPT ![r] = "ioread32"]
    /\ Did(r, "rmb")
    /\ UNCHANGED <<drvVars, kernVars, envVars, coreVars, histVars, rdata, rbuf,
                   rret>>

\* Variant of line 60: data is not taken from the register.
Ioread32_NotTheRegister(r) ==
    /\ rpc[r] = "ioread32"
    /\ \E v \in RegValues : rdata' = [rdata EXCEPT ![r] = v]
    /\ rpc' = [rpc EXCEPT ![r] = "copy_to_user"]
    /\ Did(r, "ioread32")
    /\ UNCHANGED <<drvVars, kernVars, envVars, coreVars, histVars, rcount,
                   rbuf, rret>>

\* line 60: data = ioread32(base_addr).  A load through an address that is
\* not mapped either faults or yields whatever the address now reaches.
Ioread32(r) ==
    /\ rpc[r] = "ioread32"
    /\ IF base_addr \in mappings
         THEN /\ rdata' = [rdata EXCEPT ![r] = hw[DevOf(base_addr)]]
              /\ rpc' = [rpc EXCEPT ![r] = "copy_to_user"]
         ELSE \/ /\ rpc' = [rpc EXCEPT ![r] = "oops"]
                 /\ UNCHANGED rdata
              \/ /\ rpc' = [rpc EXCEPT ![r] = "copy_to_user"]
                 /\ \E v \in RegValues : rdata' = [rdata EXCEPT ![r] = v]
    /\ Did(r, "ioread32")
    /\ UNCHANGED <<drvVars, kernVars, envVars, coreVars, histVars, rcount,
                   rbuf, rret>>

\* Variant of lines 56-61: data is one object shared by all the calls
\* (static storage), so the transfer takes what the latest load left in it.
CopyToUser_SharedData(r) ==
    /\ rpc[r] = "copy_to_user"
    /\ \E notCopied \in 0..SizeofU32, q \in Readers :
         /\ rpc[q] \in {"copy_to_user", "read_return"}
         /\ rbuf' = [rbuf EXCEPT ![r] =
                        SubSeq(Bytes(rdata[q]), 1, SizeofU32 - notCopied)]
         /\ rret' = [rret EXCEPT ![r] = ReadResult(notCopied)]
    /\ rpc' = [rpc EXCEPT ![r] = "read_return"]
    /\ Did(r, "copy_to_user")
    /\ UNCHANGED <<drvVars, kernVars, envVars, coreVars, histVars, rcount,
                   rdata>>

\* Variant of lines 61-64: a failed transfer undoes the mapping.
CopyToUser_Rollback(r) ==
    /\ rpc[r] = "copy_to_user"
    /\ \E notCopied \in 0..SizeofU32 :
         /\ rbuf' = [rbuf EXCEPT ![r] =
                        SubSeq(Bytes(rdata[r]), 1, SizeofU32 - notCopied)]
         /\ rret' = [rret EXCEPT ![r] = ReadResult(notCopied)]
         /\ mappings' = IF notCopied # 0 THEN mappings \ {base_addr} ELSE mappings
    /\ rpc' = [rpc EXCEPT ![r] = "read_return"]
    /\ Did(r, "copy_to_user")
    /\ UNCHANGED <<drvVars, regions, chrdevs, cdevMap, classExists, nodes,
                   envVars, coreVars, histVars, rcount, rdata>>

\* lines 61-65: the bytes that were copied are in the caller's buffer; data
\* is a local of the call and lives until it returns.
CopyToUser(r) ==
    /\ rpc[r] = "copy_to_user"
    /\ \E notCopied \in 0..SizeofU32 :
         /\ rbuf' = [rbuf EXCEPT ![r] =
                        SubSeq(Bytes(rdata[r]), 1, SizeofU32 - notCopied)]
         /\ rret' = [rret EXCEPT ![r] = ReadResult(notCopied)]
    /\ rpc' = [rpc EXCEPT ![r] = "read_return"]
    /\ Did(r, "copy_to_user")
    /\ UNCHANGED <<drvVars, kernVars, envVars, coreVars, histVars, rcount,
                   rdata>>

\* dht11_read returns to the caller, who consumes the result.
ReadReturn(r) ==
    /\ rpc[r] = "read_return"
    /\ rpc' = [rpc EXCEPT ![r] = "open"]
    /\ rcount' = [rcount EXCEPT ![r] = 0]
    /\ rdata' = [rdata EXCEPT ![r] = 0]
    /\ rbuf' = [rbuf EXCEPT ![r] = <<>>]
    /\ rret' = [rret EXCEPT ![r] = 0]
    /\ rtrace' = [rtrace EXCEPT ![r] = <<>>]
    /\ UNCHANGED <<drvVars, kernVars, envVars, coreVars, histVars>>

\* close(fd): dht11_close.
Close(r) ==
    /\ rpc[r] = "open"
    /\ rpc' = [rpc EXCEPT ![r] = "closed"]
    /\ rret' = [rret EXCEPT ![r] = dht11_close]
    /\ UNCHANGED <<drvVars, kernVars, envVars, coreVars, histVars, rcount,
                   rdata, rbuf, rtrace>>

\* A process that faulted in the kernel is killed; its file is released.
ReadOops(r) ==
    /\ rpc[r] = "oops"
    /\ rpc' = [rpc EXCEPT ![r] = "closed"]
    /\ rcount' = [rcount EXCEPT ![r] = 0]
    /\ rret' = [rret EXCEPT ![r] = dht11_close]
    /\ rtrace' = [rtrace EXCEPT ![r] = <<>>]
    /\ UNCHANGED <<drvVars, kernVars, envVars, coreVars, histVars, rdata, rbuf>>

\* The sensor peripheral updates its register.
HwChange(d) ==
    /\ \E v \in RegValues \ {hw[d]} : hw' = [hw EXCEPT ![d] = v]
    /\ UNCHANGED <<drvVars, kernVars, dtMem, coreVars, histVars, readVars>>

(* --------------------------- specification ------------------------------ *)
\* The driver core calling dht11_probe.
Attach ==
    \/ \E d \in Devices : ProbeStart(d)
    \/ PlatformGetResource
    \/ RequestMemRegion
    \/ Ioremap
    \/ AllocChrdevRegion
    \/ CdevInit
    \/ CdevAdd
    \/ ClassCreate
    \/ DeviceCreate
    \/ ProbeSuccess
    \/ ErrClassDestroy
    \/ ErrDeleteCdev
    \/ ErrUnregister
    \/ ErrUnmap
    \/ ErrReleaseRegion
    \/ ProbeFail
    \/ ProbeReturn

\* The driver core calling dht11_remove.
Detach ==
    \/ \E d \in Devices : RemoveStart(d)
    \/ RmDeviceDestroy
    \/ RmClassDestroy
    \/ RmCdevDel
    \/ RmUnregisterChrdevRegion
    \/ RmIounmap
    \/ RmReleaseMemRegion
    \/ RmReturn
    \/ RemoveReturn

\* The driver core: probe and remove calls, one at a time.
Lifecycle == Attach \/ Detach

\* A user process working with the device node, asking for counts in C.
Process(r, C) ==
    \/ Open(r)
    \/ ReadRmb(r, C)
    \/ Ioread32(r)
    \/ CopyToUser(r)
    \/ ReadReturn(r)
    \/ Close(r)
    \/ ReadOops(r)

\* Every process reads the 4-byte record of the device, concurrently with
\* the driver core and with the other processes.
Next ==
    \/ Lifecycle
    \/ \E r \in Readers : Process(r, {SizeofU32})
    \/ \E d \in Devices : HwChange(d)

Spec == Init /\ [][Next]_vars

\* One process sweeps the requested count over Counts, concurrently with
\* the driver core.
NextRead ==
    \/ Lifecycle
    \/ \E r \in 1..1 : Process(r, Counts)
    \/ \E d \in Devices : HwChange(d)

SpecRead == Init /\ [][NextRead]_vars

\* The device stays attached and its register keeps its value: after the
\* attach there is no detach and no hardware change, only processes reading.
NextStatic ==
    \/ Attach
    \/ \E r \in Readers :
         \/ Open(r)
         \/ ReadRmb(r, {SizeofU32})
         \/ Ioread32(r)
         \/ CopyToUser(r)
         \/ ReadReturn(r)
         \/ Close(r)

SpecStatic == Init /\ [][NextStatic]_vars

\* Two matching platform devices, whose registers hold different values.
InitMulti ==
    /\ res = NULL /\ remap_size = 0 /\ base_addr = NULL /\ dev = 0
    /\ c_dev = [ops |-> FALSE, dev |-> 0]
    /\ cl = "NULL"
    /\ regions = {} /\ mappings = {} /\ chrdevs = {} /\ cdevMap = {}
    /\ classExists = FALSE /\ nodes = {}
    /\ dtMem \in [AllDevices -> BOOLEAN]
    /\ hw \in {h \in [AllDevices -> RegValues] : \A d, e \in AllDevices : d # e => h[d] # h[e]}
    /\ pc = "idle" /\ cur = NULL /\ ret = 0 /\ rv = 0
    /\ bound = [d \in AllDevices |-> FALSE]
    /\ failed = "none" /\ acqLog = <<>> /\ relLog = <<>> /\ heldPre = {}
    /\ ReaderIdle

\* The driver core probes and removes each matching device, one call at a
\* time, all calls working on the one set of module-scope handles; one
\* process reads.
NextMulti ==
    \/ \E d \in AllDevices : ProbeStart(d)
    \/ \E d \in AllDevices : RemoveStart(d)
    \/ Attach
    \/ Detach
    \/ \E r \in 1..1 : Process(r, {SizeofU32})

SpecMulti == InitMulti /\ [][NextMulti]_vars

(* ------------------------------ claims ---------------------------------- *)
Reverse(s) == [i \in 1..Len(s) |-> s[Len(s) + 1 - i]]
IsPrefix(s, t) == Len(s) <= Len(t) /\ SubSeq(t, 1, Len(s)) = s

\* The release calls of the call in progress, in the order they were made.
RelOps == [i \in 1..Len(relLog) |-> relLog[i].op]
AllReleasesHeld == \A i \in 1..Len(relLog) : relLog[i].ok

RemovePcs == {"rm_device_destroy", "rm_class_destroy", "rm_cdev_del",
              "rm_unregister_chrdev_region", "rm_iounmap",
              "rm_release_mem_region", "rm_return", "remove_return"}

\* Order of acquisition of dht11_probe and its reverse, the order of dht11_remove.
AttachOrder == <<"region", "mapping", "devnum", "cdev", "class", "node">>
DetachOrder == Reverse(AttachOrder)

\* C1: when dht11_probe returns after a step failed, the release calls it made
\* are exactly the resources it had acquired, in reverse order of acquisition,
\* each on a held resource, and the held resources are those held before the call.
C1_RollbackRestoresPreAttach ==
    (pc = "probe_return" /\ failed # "none") =>
        /\ RelOps = Reverse(acqLog)
        /\ AllReleasesHeld
        /\ Held = heldPre

C1_Witness ==
    pc = "probe_return" /\ failed = "device_create" /\ Len(relLog) = 5

\* C2: a probe in which a step failed returns a strictly negative value, and
\* probe returns 0 only when no step failed.
C2_FailedProbeReturnsNegative ==
    pc = "probe_return" =>
        /\ failed # "none" => rv < 0
        /\ rv = 0 => failed = "none"

\* C3: dht11_remove never runs after a probe in which a step failed.
C3_NoRemoveAfterFailedProbe ==
    pc \in RemovePcs => failed = "none"

\* C4: when dht11_remove returns after a fully successful probe, each of the
\* six resources the probe acquired has been released exactly once, on a held
\* resource, as many released as acquired, and none is held any more.
C4_DetachReleasesAllOnce ==
    (pc = "rm_return" /\ failed = "none") =>
        /\ Len(acqLog) = 6 /\ Len(relLog) = Len(acqLog)
        /\ \A k \in 1..Len(acqLog) :
               Cardinality({i \in 1..Len(relLog) : relLog[i].op = acqLog[k]}) = 1
        /\ AllReleasesHeld
        /\ Held = {}

C4_Witness ==
    pc = "rm_return" /\ failed = "none" /\ heldPre # {}

\* C5: a read that is at its 32-bit load always finds base_addr mapped.
C5_NoDanglingRead ==
    \A r \in Readers : rpc[r] = "ioread32" => base_addr \in mappings

\* C6: the value dht11_read returns is 4 or negative, never 0..3, whatever
\* count was requested.
C6_ReadReturnsFourOrError ==
    \A r \in Readers :
        rpc[r] = "read_return" => (rret[r] = SizeofU32 \/ rret[r] < 0)

C6_Witness ==
    \E r \in Readers :
        rpc[r] = "read_return" /\ rcount[r] = 0 /\ rret[r] = SizeofU32

\* C7: dht11_remove makes its release calls in the order device node, class,
\* character device, device number, mapping, region: at every point of the
\* call the calls made so far are a prefix of that order, at its return all
\* six were made, and after a successful probe that is the reverse of the
\* order of acquisition.
C7_DetachInReverseOrder ==
    /\ pc \in RemovePcs => IsPrefix(RelOps, DetachOrder)
    /\ pc \in {"rm_return", "remove_return"} => RelOps = DetachOrder
    /\ (pc = "rm_return" /\ failed = "none") => RelOps = Reverse(acqLog)

C7_Witness ==
    /\ pc = "rm_return" /\ failed = "none"
    /\ Len(relLog) = 6 /\ relLog[1].op = "node" /\ relLog[6].op = "region"

\* C8: while no probe or remove call is executing, base_addr is mapped if and
\* only if the device is bound (its last probe returned 0 and no remove ran
\* since).
C8_MappedIffAttached ==
    pc = "idle" => (base_addr \in mappings <=> \E d \in Devices : bound[d])

\* C9: with no memory resource in the device tree, probe goes from the lookup
\* straight to returning -ENODEV: nothing is acquired, nothing is released,
\* nothing is held.
C9_NoResourceNoDevice ==
    (cur # NULL /\ pc \notin RemovePcs /\ pc \notin {"idle", "oops", "platform_get_resource"}
        /\ ~dtMem[cur]) =>
        /\ pc = "probe_return" /\ rv = -ENODEV
        /\ acqLog = <<>> /\ relLog = <<>>
        /\ Held = {} /\ base_addr \notin mappings

C9_Witness ==
    pc = "probe_return" /\ cur # NULL /\ ~dtMem[cur] /\ rv = -ENODEV

\* C10: open returns 0 and close returns 0; a read that returns returns 4
\* exactly when all 4 bytes reached the caller's buffer and -EACCES exactly
\* when they did not; and a read whose load goes through a valid mapping
\* always comes to return.
C10_OpenReadCloseResults ==
    /\ [](\A r \in Readers :
            rpc[r] = "read_return" =>
                /\ rret[r] \in {SizeofU32, -EACCES}
                /\ rret[r] = SizeofU32 <=> Len(rbuf[r]) = SizeofU32
                /\ rret[r] = -EACCES <=> Len(rbuf[r]) < SizeofU32)
    /\ [][\A r \in Readers :
            /\ (rpc[r] = "closed" /\ rpc'[r] = "open") => rret'[r] = 0
            /\ (rpc[r] = "open" /\ rpc'[r] = "closed") => rret'[r] = 0
            /\ (rpc[r] = "ioread32" /\ rpc'[r] = "oops") => base_addr \notin mappings]_vars

C10_Witness ==
    \E r \in Readers :
        rpc[r] = "read_return" /\ rret[r] = -EACCES /\ \E d \in Devices : bound[d]

\* Some but not all of the resources of the call in progress are released.
PartialTeardown == (\E i \in 1..Len(relLog) : relLog[i].ok) /\ Held # {}

\* C11: no read is at its load or at its transfer while a detach or a
\* rollback has released some but not all of the resources.
C11_NoPartialTeardownObserved ==
    \A r \in Readers :
        rpc[r] \in {"ioread32", "copy_to_user"} => ~PartialTeardown

\* The first k resources of the order of acquisition.
AttachPrefix(k) == SubSeq(AttachOrder, 1, k)

\* C12: dht11_probe acquires in the order region, mapping, device number,
\* character device (bound to dht11_operations), class, device node: each
\* step is reached only with all earlier ones acquired and nothing else, the
\* lookup has succeeded before any of them, and a device node exists only
\* when all six were acquired.
C12_AttachInFixedOrder ==
    /\ IsPrefix(acqLog, AttachOrder)
    /\ pc = "request_mem_region" => (res # NULL /\ acqLog = AttachPrefix(0))
    /\ pc = "ioremap" => acqLog = AttachPrefix(1)
    /\ pc = "alloc_chrdev_region" => (acqLog = AttachPrefix(2) /\ failed = "none")
    /\ pc \in {"cdev_init", "cdev_add"} => acqLog = AttachPrefix(3)
    /\ pc = "class_create" => (acqLog = AttachPrefix(4) /\ c_dev.ops)
    /\ pc = "device_create" => acqLog = AttachPrefix(5)
    /\ pc = "probe_success" => acqLog = AttachPrefix(6)
    /\ nodes # {} => acqLog = AttachOrder

C12_Witness ==
    pc = "probe_success" /\ acqLog = AttachOrder /\ Cardinality(Held) = 6

\* C13: with the device attached, no hardware change and no attach or detach
\* (SpecStatic), any two reads load the same value, and two reads with the
\* same transfer outcome leave the same bytes in their callers' buffers and
\* return the same value; two complete transfers deliver the same 4 bytes.
C13_ReadsAgreeOnStaticRegister ==
    \A r, q \in Readers :
        /\ (rpc[r] \in {"copy_to_user", "read_return"}
              /\ rpc[q] \in {"copy_to_user", "read_return"})
             => rdata[r] = rdata[q]
        /\ (rpc[r] = "read_return" /\ rpc[q] = "read_return"
              /\ Len(rbuf[r]) = Len(rbuf[q]))
             => (rbuf[r] = rbuf[q] /\ rret[r] = rret[q])

C13_Witness ==
    \E r, q \in Readers :
        /\ r # q /\ rpc[r] = "read_return" /\ rpc[q] = "read_return"
        /\ rbuf[r] = <<4, 3, 2, 1>> /\ rbuf[q] = <<4, 3, 2, 1>>
        /\ rret[r] = SizeofU32 /\ rret[q] = SizeofU32

\* The operations of one call of dht11_read, in order.
ReadOrder == <<"rmb", "ioread32", "copy_to_user">>

\* C14: every call of dht11_read performs the barrier, then one load, then
\* one transfer attempt: what a call has done is always a prefix of that
\* order, the load is pending only after the barrier, the transfer only after
\* barrier and load, and at return, with either result, all three were done
\* once each.
C14_BarrierLoadTransfer ==
    \A r \in Readers :
        /\ IsPrefix(rtrace[r], ReadOrder)
        /\ rpc[r] = "ioread32" => rtrace[r] = SubSeq(ReadOrder, 1, 1)
        /\ rpc[r] = "copy_to_user" => rtrace[r] = SubSeq(ReadOrder, 1, 2)
        /\ rpc[r] = "read_return" =>
               /\ rtrace[r] = ReadOrder
               /\ Cardinality({i \in 1..Len(rtrace[r]) : rtrace[r][i] = "ioread32"}) = 1

C14_Witness ==
    \E r \in Readers :
        rpc[r] = "read_return" /\ rret[r] = -EACCES /\ rtrace[r] = ReadOrder

\* C15: a step of open, read or close changes no module-scope handle and no
\* kernel object and makes no release call.
C15_ReadLeavesResourcesAlone ==
    [][readVars' # readVars =>
          (drvVars' = drvVars /\ kernVars' = kernVars /\ relLog' = relLog)]_vars

C15_Witness ==
    \E r \in Readers :
        rpc[r] = "read_return" /\ rret[r] = -EACCES /\ Cardinality(Held) = 6

\* C16: with reads running concurrently, the bytes a read leaves in its
\* caller's buffer are bytes of the value that read itself loaded, that value
\* is the register's at the moment of the load, and a step of one read
\* changes neither the data nor the buffer of another.
C16_ConcurrentReadsIndependent ==
    /\ [](\A r \in Readers :
            rpc[r] = "read_return" =>
                rbuf[r] = SubSeq(Bytes(rdata[r]), 1, Len(rbuf[r])))
    /\ [][\A r \in Readers :
            /\ (rpc[r] = "ioread32" /\ rpc'[r] = "copy_to_user"
                  /\ base_addr \in mappings)
                 => rdata'[r] = hw[DevOf(base_addr)]
            /\ rpc'[r] # rpc[r] =>
                 \A q \in Readers \ {r} :
                     rdata'[q] = rdata[q] /\ rbuf'[q] = rbuf[q]]_vars

C16_Witness ==
    \E r, q \in Readers :
        /\ rpc[r] = "read_return" /\ rpc[q] = "read_return"
        /\ Len(rbuf[r]) = SizeofU32 /\ Len(rbuf[q]) = SizeofU32
        /\ rbuf[r] # rbuf[q]

\* C17: every release call is made on an object that is held.
C17_NoReleaseOfUnheld ==
    \A i \in 1..Len(relLog) : relLog[i].ok

\* The kinds of resource that are held.
HeldKinds == {h[1] : h \in Held}

\* C18: the held resources are always the first k of region, mapping, device
\* number, character device, class, device node, one object of each.
C18_HeldIsPrefixOfAttachOrder ==
    \E k \in 0..Len(AttachOrder) :
        /\ HeldKinds = {AttachOrder[i] : i \in 1..k}
        /\ Cardinality(Held) = k

C18_Witness ==
    pc = "rm_unregister_chrdev_region" /\ Cardinality(Held) = 3

\* C20: the bytes a read has written to the caller's buffer are at most the
\* count the caller asked for.
C20_NoMoreThanCount ==
    \A r \in Readers :
        rpc[r] = "read_return" => Len(rbuf[r]) <= rcount[r]

\* Device d went through a complete attach and has not been detached: it is
\* bound and its register is mapped.
Attached(d) == bound[d] /\ ResStart(d) \in mappings

\* The handles dht11_read and dht11_remove work with.
Handles == <<base_addr, res, remap_size, dev, cl>>

ProbePcs ==
    {"platform_get_resource", "request_mem_region", "ioremap",
     "alloc_chrdev_region", "cdev_init", "cdev_add", "class_create",
     "device_create", "probe_success", "err_class_destroy", "err_delete_cdev",
     "err_unregister", "err_unmap", "err_release_region", "probe_fail",
     "probe_return"}

\* C19: while one device is attached, no step of a dht11_probe call for
\* another device changes base_addr, res, remap_size, dev or cl, and when the
\* call has returned base_addr is still the attached device's mapping.
C19_ProbeLeavesAttachedDevice ==
    [][\A d \in AllDevices :
         (Attached(d) /\ pc \in ProbePcs /\ cur # d)
             => (Handles' = Handles /\ base_addr = ResStart(d))]_vars

====
